---- MODULE Spec2Model ----
(***************************************************************************)
(* A/B firmware updater of kalami: the Updater controller (check, install, *)
(* downloadFinished) running in the main thread, and the UpdateThread      *)
(* workers (run, downloadAndVerify, downloadDeltaImage, downloadFullImage, *)
(* verifyImage, emitProgress) it starts.                                   *)
(*                                                                         *)
(* Abstractions.  A manifest is a number m in Manifests: it stands for the *)
(* seven fields parsed from one JSON document (its URLs and digests); its  *)
(* build_id is ManifestVersion(m).  The content of an inactive partition   *)
(* is a number in Contents: 0 is a content ImageReader::open rejects or    *)
(* whose digest matches no manifest, m > 0 is an image whose SHA-512 over  *)
(* the header-derived length is the digest manifest m names.  A progress   *)
(* fraction v in [0,1] is the integer v * PSteps; an overall progress p is *)
(* the integer p * 4 * PSteps.                                             *)
(***************************************************************************)
EXTENDS Integers, FiniteSets, Sequences, TLC

\* ---------------------------------------------------------------- bounds

\* Number of distinct manifests the update server may serve.
NumManifests == 2
\* Number of check() calls.
MaxChecks == 2
\* Number of UpdateThread objects install() may create.
MaxInstalls == 2
\* Resolution of a progress fraction: v ranges over 0..PSteps.
PSteps == 1

\* machine->getOsVersion()
OsVersion == 1

Manifests == 1..NumManifests
Contents == 0..NumManifests
Workers == 1..MaxInstalls
Kinds == {"boot", "rootfs"}

\* build_id of manifest m: manifest 1 carries the running version, the
\* others carry newer ones.
ManifestVersion(m) == OsVersion + m - 1

\* The AvailableUpdate record after memset(&availableUpdate, 0, ...).
ZeroUpdate == [version |-> 0, m |-> 0, zeroed |-> TRUE]
\* The AvailableUpdate record of a freshly constructed Updater.
NoUpdate == [version |-> 0, m |-> 0, zeroed |-> FALSE]

\* What a finished QNetworkReply of the controller delivers through
\* readAll(): nothing (transport error or abort), bytes that are no JSON
\* document, manifest m, or (for the signature request) a detached
\* signature that is good for manifest m (m = 0: good for none).
NetErr == [kind |-> "neterr", m |-> 0]
Garbage == [kind |-> "garbage", m |-> 0]
JsonReplies == {NetErr, Garbage} \cup {[kind |-> "manifest", m |-> m] : m \in Manifests}
SigReplies == {NetErr} \cup {[kind |-> "sig", m |-> m] : m \in 0..NumManifests}

\* The Updater of a process that has ended abnormally.
Aborted ==
    [alive |-> FALSE, state |-> "StateUndefined", pendingReply |-> "null",
     thread |-> 0, availableUpdate |-> NoUpdate, verified |-> FALSE,
     json |-> 0, emitted |-> "none", op |-> "other",
     chkEnd |-> "none", nChecks |-> 0]

\* An UpdateThread that was never created.  pc, state, ret, quit,
\* deleteLater, verdict and delivered are the thread's own state; the other
\* fields record what the run has done so far: the kinds it has accepted
\* (acc), the kinds it has issued a request for or opened for writing
\* (touched), the last progress value it emitted (prog, -1: none), the
\* fraction received by the transfer in hand (rx) and, for the kind in
\* hand, the result of downloadDeltaImage (dres), of the two verifyImage
\* calls (v1, v2) and the number of full-image requests (fullReqs).
NoThread ==
    [pc |-> "none", state |-> "boot", ret |-> FALSE, quit |-> FALSE,
     deleteLater |-> FALSE, rx |-> 0, prog |-> -1,
     verdict |-> "none", delivered |-> FALSE,
     acc |-> {}, touched |-> {}, dres |-> "none", v1 |-> "none", v2 |-> "none",
     fullReqs |-> 0]

\* No UpdateThread exists.
NoThreads == [w \in Workers |-> NoThread]

\* No ImageReader is followed.
NoReader == [pc |-> "none"]

\* Ways a check can end before a successful signature verification.
CheckFailures == {"json_transport_error", "json_parse_error", "json_write_failed",
                  "sig_transport_error", "sig_write_failed", "sig_invalid"}

VARIABLES
    ctl,      \* the Updater object, its temporary files and its last output
    thr,      \* the UpdateThread objects, by order of creation
    part,     \* content of the inactive partition of each kind
    commits,  \* number of machine->setAltBootConfig() calls
    rd        \* an ImageReader and its device, or a verifyImage call and its
              \* mapping, when one is followed byte by byte (SpecReader,
              \* SpecVerify); NoReader in Spec, where images are abstract

vars == <<ctl, thr, part, commits, rd>>

\* ------------------------------------------------------------ controller

\* A handler of the main thread can run: the process is alive, and no
\* deferred delete of a replaced UpdateThread is due (Qt delivers it when
\* control returns to the event loop, ahead of the events that follow).
MainIdle == ctl.alive /\ \A w \in Workers : ~thr[w].deleteLater

\* Updater::verifySignature: gpg --verify exits 0 iff it ran and the
\* signature file is a signature of the content file.
verifySignature(contentFile, signatureFile, gpgRuns) ==
    gpgRuns /\ signatureFile # 0 /\ signatureFile = contentFile

\* Updater::downloadFinished, on a reply that delivers `content`.
\*   fopen:   QFile::open of the temporary file succeeds
\*   gpgRuns: the gpg process starts and finishes
\*   strOk:   assigning to the QString members of a record that was
\*            memset to zero bytes works in this build (it dereferences
\*            the zeroed d-pointer otherwise)
downloadFinishedOn(c, content, fopen, gpgRuns, strOk) ==
    LET done == [c EXCEPT !.pendingReply = "finished", !.op = "other"] IN
    CASE c.state = "StateDownloadJson" ->
           IF ~fopen
           THEN [done EXCEPT !.emitted = "none", !.chkEnd = "json_write_failed"]
           ELSE IF content.kind # "manifest"
           THEN [done EXCEPT !.json = 0, !.emitted = "checkFailed",
                             !.chkEnd = IF content.kind = "neterr"
                                        THEN "json_transport_error"
                                        ELSE "json_parse_error"]
           ELSE IF c.availableUpdate.zeroed /\ ~strOk
           THEN Aborted
           ELSE [c EXCEPT !.json = content.m,
                          !.availableUpdate = [version |-> ManifestVersion(content.m),
                                               m |-> content.m, zeroed |-> FALSE],
                          !.verified = FALSE,
                          !.state = "StateDownloadSignature",
                          !.pendingReply = "inflight",
                          !.emitted = "none",
                          !.op = "other"]
      [] c.state = "StateDownloadSignature" ->
           IF ~fopen
           THEN [done EXCEPT !.emitted = "none", !.chkEnd = "sig_write_failed"]
           ELSE LET sig == IF content.kind = "sig" THEN content.m ELSE 0 IN
                IF ~verifySignature(c.json, sig, gpgRuns)
                THEN [done EXCEPT !.state = "StateVerifySignature",
                                  !.availableUpdate = ZeroUpdate,
                                  !.verified = FALSE,
                                  !.emitted = "none",
                                  !.chkEnd = IF content.kind = "neterr"
                                             THEN "sig_transport_error"
                                             ELSE "sig_invalid"]
                ELSE [done EXCEPT !.state = "StateVerifySignature",
                                  !.verified = TRUE,
                                  !.emitted = IF c.availableUpdate.version > OsVersion
                                              THEN "updateAvailable"
                                              ELSE "alreadyUpToDate",
                                  !.chkEnd = IF c.availableUpdate.version > OsVersion
                                             THEN "update_available"
                                             ELSE "already_up_to_date"]
      [] OTHER -> [done EXCEPT !.emitted = "none"]

\* The finished() signal of the pending reply reaches Updater::downloadFinished.
downloadFinished ==
    /\ MainIdle
    /\ ctl.pendingReply = "inflight"
    /\ \E content \in JsonReplies \cup SigReplies, fopen, gpgRuns, strOk \in BOOLEAN :
          /\ ctl.state = "StateDownloadJson" => content \in JsonReplies
          /\ ctl.state = "StateDownloadSignature" => content \in SigReplies
          /\ ctl' = downloadFinishedOn(ctl, content, fopen, gpgRuns, strOk)
    /\ thr' = IF ctl'.alive THEN thr ELSE NoThreads
    /\ UNCHANGED <<part, commits, rd>>

\* reply->deleteLater(): the event loop deletes the finished reply;
\* pendingReply keeps pointing to it.
replyDeleted ==
    /\ MainIdle
    /\ ctl.pendingReply = "finished"
    /\ ctl' = [ctl EXCEPT !.pendingReply = "freed", !.op = "other"]
    /\ UNCHANGED <<thr, part, commits, rd>>

\* Updater::check.  pendingReply->abort() on a reply in flight emits
\* finished() synchronously, so downloadFinished runs inside check() with
\* no content; on a finished reply it does nothing; on a deleted reply the
\* call is a use after free, which either does nothing or ends the process.
check ==
    /\ MainIdle
    /\ ctl.nChecks < MaxChecks
    /\ \E fopen, gpgRuns, uafOk \in BOOLEAN :
          LET aborted == IF ctl.pendingReply = "inflight"
                         THEN downloadFinishedOn(ctl, NetErr, fopen, gpgRuns, TRUE)
                         ELSE [ctl EXCEPT !.emitted = "none"] IN
          IF ctl.pendingReply = "freed" /\ ~uafOk
          THEN ctl' = Aborted
          ELSE ctl' = [aborted EXCEPT !.state = "StateDownloadJson",
                                      !.pendingReply = "inflight",
                                      !.chkEnd = "none",
                                      !.nChecks = ctl.nChecks + 1,
                                      !.op = "other"]
    /\ thr' = IF ctl'.alive THEN thr ELSE NoThreads
    /\ UNCHANGED <<part, commits, rd>>

\* The Updater after its destructor has run.
Destroyed == [Aborted EXCEPT !.op = "destructor"]

\* Updater::~Updater.  pendingReply->abort() acts as in check(): on a reply
\* in flight it runs downloadFinished with no content, on a finished reply
\* it does nothing, on a deleted reply it is a use after free.  Nothing is
\* followed once the Updater is gone.
destructor ==
    /\ MainIdle
    /\ \E uafOk \in BOOLEAN :
          ctl' = IF ctl.pendingReply = "freed" /\ ~uafOk THEN Aborted ELSE Destroyed
    /\ thr' = NoThreads
    /\ UNCHANGED <<part, commits, rd>>

\* Updater::install without its version test.
noUpdatePending_Missing(c) == FALSE

\* The version test that opens Updater::install.
noUpdatePending(c) == c.availableUpdate.version = 0

\* What is recorded about a run is recorded until install() replaces its
\* thread.
Unobserved(t) ==
    [t EXCEPT !.rx = 0, !.prog = -1, !.touched = {}, !.dres = "none",
              !.v1 = "none", !.v2 = "none", !.fullReqs = 0]

Obs(t) == IF t.quit THEN Unobserved(t) ELSE t

\* Updater::install that leaves the thread it replaces running: no
\* thread->quit() before the new thread is started.
install_NoQuit ==
    /\ MainIdle
    /\ IF noUpdatePending(ctl)
       THEN /\ ctl' = [ctl EXCEPT !.emitted = "updateFailed", !.op = "install"]
            /\ thr' = thr
       ELSE /\ ctl.thread < MaxInstalls
            /\ LET old == ctl.thread
                   new == ctl.thread + 1
                   keepOld == IF old = 0 THEN thr
                              ELSE [thr EXCEPT ![old].deleteLater = TRUE] IN
               /\ thr' = [keepOld EXCEPT ![new] = [NoThread EXCEPT !.pc = "dav"]]
               /\ ctl' = [ctl EXCEPT !.thread = new, !.emitted = "none",
                                     !.op = "install"]
    /\ UNCHANGED <<part, commits, rd>>

\* Updater::install.  Threads are numbered in the order install() creates
\* them, so ctl.thread is also the number of threads created so far.
install ==
    /\ MainIdle
    /\ IF noUpdatePending(ctl)
       THEN /\ ctl' = [ctl EXCEPT !.emitted = "updateFailed", !.op = "install"]
            /\ thr' = thr
       ELSE /\ ctl.thread < MaxInstalls
            /\ LET old == ctl.thread
                   new == ctl.thread + 1
                   quitOld == IF old = 0 THEN thr
                              ELSE [thr EXCEPT ![old] =
                                      Obs([thr[old] EXCEPT !.quit = TRUE,
                                                           !.deleteLater = TRUE])] IN
               /\ thr' = [quitOld EXCEPT ![new] = [NoThread EXCEPT !.pc = "dav"]]
               /\ ctl' = [ctl EXCEPT !.thread = new, !.emitted = "none",
                                     !.op = "install"]
    /\ UNCHANGED <<part, commits, rd>>

\* thread->deleteLater(): the event loop deletes the replaced UpdateThread.
\* ~QThread ends the process (qFatal) when the thread is still running.
threadDeleted(w) ==
    /\ ctl.alive
    /\ thr[w].deleteLater
    /\ IF thr[w].pc # "done"
       THEN ctl' = Aborted /\ thr' = NoThreads
       ELSE ctl' = ctl /\ thr' = [thr EXCEPT ![w].deleteLater = FALSE]
    /\ UNCHANGED <<part, commits, rd>>

\* An UpdateThread whose verdict the controller has handled: nothing of the
\* finished run is read again.
delivered(t) ==
    [NoThread EXCEPT !.pc = "done", !.delivered = TRUE,
                     !.quit = t.quit, !.deleteLater = t.deleteLater]

\* The lambda install() connects to UpdateThread::succeeded.
onSucceeded(w) ==
    /\ MainIdle
    /\ thr[w].verdict = "succeeded" /\ ~thr[w].delivered
    /\ commits' = commits + 1
    /\ thr' = [thr EXCEPT ![w] = delivered(thr[w])]
    /\ ctl' = [ctl EXCEPT !.emitted = "updateSucceeded", !.op = "other"]
    /\ UNCHANGED <<part, rd>>

\* The lambda install() connects to UpdateThread::failed.
onFailed(w) ==
    /\ MainIdle
    /\ thr[w].verdict = "failed" /\ ~thr[w].delivered
    /\ thr' = [thr EXCEPT ![w] = delivered(thr[w])]
    /\ ctl' = [ctl EXCEPT !.emitted = "updateFailed", !.op = "other"]
    /\ UNCHANGED <<part, commits, rd>>

\* ---------------------------------------------------------------- engine

\* UpdateThread::emitProgress.  The lambda install() connects to
\* UpdateThread::progress relays every value, in order, as updateProgress.
emitProgress(t, isDownload, v) ==
    IF v < 0 \/ v > PSteps
    THEN t
    ELSE [t EXCEPT !.prog = (IF t.state = "rootfs" THEN 2 * PSteps ELSE 0)
                            + (IF isDownload THEN 0 ELSE PSteps) + v]

\* downloadAndVerify returns r to run().
davReturn(t, r) ==
    [t EXCEPT !.pc = "ret", !.ret = r, !.rx = 0,
              !.acc = IF r THEN @ \cup {t.state} ELSE @]

\* downloadDeltaImage returning !error: ret, which only the finished
\* handler sets, is not looked at.
deltaResult_RetIgnored(ret, error) == ~error

\* The return value of downloadDeltaImage.
deltaResult(ret, error) == ret /\ ~error

\* downloadAndVerify after downloadDeltaImage returned r.
afterDelta(t, r) ==
    IF ~r
    THEN davReturn([t EXCEPT !.dres = "failed"], FALSE)
    ELSE [t EXCEPT !.pc = "verify1", !.dres = "ok", !.rx = 0]

\* downloadFullImage up to loop.exec(): the request is issued, then the
\* output is opened.
fullStart(t, outOpens) ==
    LET req == [t EXCEPT !.touched = @ \cup {t.state}, !.fullReqs = @ + 1] IN
    IF ~outOpens
    THEN davReturn(req, FALSE)
    ELSE [req EXCEPT !.pc = "fullLoop"]

\* downloadAndVerify that gives up when the first verifyImage fails.
afterVerify1_NoFull(t, ok, outOpens) ==
    IF ok
    THEN davReturn([t EXCEPT !.v1 = "ok"], TRUE)
    ELSE davReturn([t EXCEPT !.v1 = "bad"], FALSE)

\* downloadAndVerify after the first verifyImage returned ok.
afterVerify1(t, ok, outOpens) ==
    IF ok
    THEN davReturn([t EXCEPT !.v1 = "ok"], TRUE)
    ELSE fullStart([t EXCEPT !.v1 = "bad"], outOpens)

\* downloadAndVerify accepting a full download without the second verifyImage.
afterFull_Unverified(t, r) == davReturn(t, r)

\* downloadAndVerify after downloadFullImage returned r.
afterFull(t, r) ==
    IF ~r
    THEN davReturn(t, FALSE)
    ELSE [t EXCEPT !.pc = "verify2", !.rx = 0]

\* downloadAndVerify after the second verifyImage returned ok.
afterVerify2(t, ok) ==
    IF ok
    THEN davReturn([t EXCEPT !.v2 = "ok"], TRUE)
    ELSE davReturn([t EXCEPT !.v2 = "bad"], FALSE)

\* verifyImage that does not compare the digest with the manifest's.
verifyImage_NoCompare(content, update, opens) ==
    opens /\ content # 0

\* UpdateThread::verifyImage on a partition holding `content`, compared
\* with the digest of the record `update`; opens: ImageReader::open
\* succeeds.  The caller has dealt with a failed mapping: map() returns
\* MAP_FAILED then, which verifyImage takes for a buffer and reads.
verifyImage(content, update, opens) ==
    opens /\ content # 0 /\ content = update.m

\* verifyImage reads through the pointer of a failed mapping: the image
\* opened (so it has bytes to hash) and mmap failed.  The process ends with
\* a memory fault.
mapFault(content, opens, maps) == opens /\ content # 0 /\ ~maps

\* The progress verifyImage emits: the last chunk's, when the image opens.
verifyProgress(t, content, opens) ==
    IF opens /\ content # 0 THEN emitProgress(t, FALSE, PSteps) ELSE t

\* run() returns after emitting `verdict`: its locals and what is recorded
\* about the finished run's requests and progress are dropped.
runReturn(t, verdict) ==
    [NoThread EXCEPT !.pc = "done", !.verdict = verdict, !.acc = t.acc,
                     !.quit = t.quit, !.deleteLater = t.deleteLater]

\* run() that does not test ret after the rootfs downloadAndVerify.
runNext_RootfsUnchecked(t) ==
    IF t.state = "boot"
    THEN IF ~t.ret THEN runReturn(t, "failed")
         ELSE [t EXCEPT !.pc = "dav", !.state = "rootfs", !.ret = FALSE,
                        !.dres = "none", !.v1 = "none", !.v2 = "none", !.fullReqs = 0]
    ELSE runReturn(t, "succeeded")

\* run() that does not test ret after the boot downloadAndVerify.
runNext_BootUnchecked(t) ==
    IF t.state = "boot"
    THEN [t EXCEPT !.pc = "dav", !.state = "rootfs", !.ret = FALSE,
                   !.dres = "none", !.v1 = "none", !.v2 = "none", !.fullReqs = 0]
    ELSE IF ~t.ret THEN runReturn(t, "failed") ELSE runReturn(t, "succeeded")

\* UpdateThread::run after downloadAndVerify returned t.ret.
runNext(t) ==
    IF ~t.ret
    THEN runReturn(t, "failed")
    ELSE IF t.state = "boot"
    THEN [t EXCEPT !.pc = "dav", !.state = "rootfs", !.ret = FALSE,
                   !.dres = "none", !.v1 = "none", !.v2 = "none", !.fullReqs = 0]
    ELSE runReturn(t, "succeeded")

\* A worker thread runs as long as the process does.
Running(w, pc) == ctl.alive /\ thr[w].pc = pc

\* Thread w moves to t.
Step(w, t) == thr' = [thr EXCEPT ![w] = Obs(t)]

\* downloadAndVerify up to loop.exec() of downloadDeltaImage, or up to the
\* first verifyImage when the dictionary does not open.
davEnter(w) ==
    /\ Running(w, "dav")
    /\ \E dictOpens, outOpens \in BOOLEAN :
          LET t == thr[w]
              req == [t EXCEPT !.touched = @ \cup {t.state}] IN
          Step(w, IF ~dictOpens THEN [t EXCEPT !.pc = "verify1"]
                  ELSE IF ~outOpens THEN afterDelta(req, FALSE)
                  ELSE [req EXCEPT !.pc = "deltaLoop"])
    /\ UNCHANGED <<ctl, part, commits, rd>>

\* readyRead handler of downloadDeltaImage.  reply->abort() emits
\* finished(), whose handler sets ret and quits the loop.  dictMapped: the
\* dictionary the decoder copies from is a mapping; when dict->map() had
\* returned MAP_FAILED, the chunk that copies from it faults.
deltaReadyRead(w) ==
    /\ Running(w, "deltaLoop") /\ ~thr[w].quit
    /\ \E replyErr, decodeOk, dictMapped \in BOOLEAN, c \in Contents :
          IF replyErr
          THEN /\ Step(w, afterDelta(thr[w], deltaResult(TRUE, TRUE)))
               /\ part' = part /\ ctl' = ctl
          ELSE IF ~dictMapped
          THEN ctl' = Aborted /\ thr' = NoThreads /\ part' = part
          ELSE /\ part' = [part EXCEPT ![thr[w].state] = c]
               /\ ctl' = ctl
               /\ IF decodeOk THEN thr' = thr
                  ELSE Step(w, afterDelta(thr[w], deltaResult(TRUE, TRUE)))
    /\ UNCHANGED <<commits, rd>>

\* error handler of downloadDeltaImage.
deltaError(w) ==
    /\ Running(w, "deltaLoop") /\ ~thr[w].quit
    /\ Step(w, afterDelta(thr[w], deltaResult(TRUE, TRUE)))
    /\ UNCHANGED <<ctl, part, commits, rd>>

\* finished handler of downloadDeltaImage.
deltaFinished(w) ==
    /\ Running(w, "deltaLoop") /\ ~thr[w].quit
    /\ Step(w, afterDelta(thr[w], deltaResult(TRUE, FALSE)))
    /\ UNCHANGED <<ctl, part, commits, rd>>

\* The 60 s timer of downloadDeltaImage quits the loop.
deltaTimeout(w) ==
    /\ Running(w, "deltaLoop") /\ ~thr[w].quit
    /\ Step(w, afterDelta(thr[w], deltaResult(FALSE, FALSE)))
    /\ UNCHANGED <<ctl, part, commits, rd>>

\* downloadProgress handler of both download functions: bytesReceived
\* never decreases; bytesTotal is -1 while the length is unknown, and may
\* fall short of bytesReceived.
downloadProgress(w, pc) ==
    /\ Running(w, pc) /\ ~thr[w].quit
    /\ \E rx \in thr[w].rx..PSteps, total \in {"known", "unknown", "short"} :
          Step(w, emitProgress([thr[w] EXCEPT !.rx = rx], TRUE,
                               CASE total = "known" -> rx
                                 [] total = "unknown" -> -1
                                 [] total = "short" -> PSteps + 1))
    /\ UNCHANGED <<ctl, part, commits, rd>>

deltaProgress(w) == downloadProgress(w, "deltaLoop")

fullProgress(w) == downloadProgress(w, "fullLoop")

\* thread->quit() of install() makes loop.exec() return; ret is still false.
loopQuit(w) ==
    /\ ctl.alive /\ thr[w].quit
    /\ \/ /\ thr[w].pc = "deltaLoop"
          /\ Step(w, afterDelta(thr[w], deltaResult(FALSE, FALSE)))
       \/ /\ thr[w].pc = "fullLoop"
          /\ Step(w, afterFull(thr[w], FALSE))
    /\ UNCHANGED <<ctl, part, commits, rd>>

\* The first verifyImage of downloadAndVerify and, when it fails,
\* downloadFullImage up to loop.exec().
verify1(w) ==
    /\ Running(w, "verify1")
    /\ \E opens, maps, outOpens \in BOOLEAN :
          LET t == thr[w] IN
          IF mapFault(part[t.state], opens, maps)
          THEN ctl' = Aborted /\ thr' = NoThreads
          ELSE /\ ctl' = ctl
               /\ Step(w, afterVerify1(verifyProgress(t, part[t.state], opens),
                                       verifyImage(part[t.state], ctl.availableUpdate, opens),
                                       outOpens))
    /\ UNCHANGED <<part, commits, rd>>

\* readyRead handler of downloadFullImage.
fullReadyRead(w) ==
    /\ Running(w, "fullLoop") /\ ~thr[w].quit
    /\ \E replyErr \in BOOLEAN, c \in Contents :
          IF replyErr
          THEN /\ Step(w, afterFull(thr[w], TRUE))
               /\ part' = part
          ELSE /\ part' = [part EXCEPT ![thr[w].state] = c]
               /\ thr' = thr
    /\ UNCHANGED <<ctl, commits, rd>>

\* error handler of downloadFullImage: reply->abort() emits finished().
fullError(w) ==
    /\ Running(w, "fullLoop") /\ ~thr[w].quit
    /\ Step(w, afterFull(thr[w], TRUE))
    /\ UNCHANGED <<ctl, part, commits, rd>>

\* finished handler of downloadFullImage.
fullFinished(w) ==
    /\ Running(w, "fullLoop") /\ ~thr[w].quit
    /\ Step(w, afterFull(thr[w], TRUE))
    /\ UNCHANGED <<ctl, part, commits, rd>>

\* The 60 s timer of downloadFullImage quits the loop.
fullTimeout(w) ==
    /\ Running(w, "fullLoop") /\ ~thr[w].quit
    /\ Step(w, afterFull(thr[w], FALSE))
    /\ UNCHANGED <<ctl, part, commits, rd>>

\* The second verifyImage of downloadAndVerify.
verify2(w) ==
    /\ Running(w, "verify2")
    /\ \E opens, maps \in BOOLEAN :
          LET t == thr[w] IN
          IF mapFault(part[t.state], opens, maps)
          THEN ctl' = Aborted /\ thr' = NoThreads
          ELSE /\ ctl' = ctl
               /\ Step(w, afterVerify2(verifyProgress(t, part[t.state], opens),
                                       verifyImage(part[t.state], ctl.availableUpdate, opens)))
    /\ UNCHANGED <<part, commits, rd>>

\* UpdateThread::run between and after the two downloadAndVerify calls.
run(w) ==
    /\ Running(w, "ret")
    /\ Step(w, runNext(thr[w]))
    /\ UNCHANGED <<ctl, part, commits, rd>>

\* --------------------------------------------------------- specification

\* Updater::Updater, with both inactive partitions blank.
Init ==
    /\ ctl = [alive |-> TRUE, state |-> "StateUndefined", pendingReply |-> "null",
              thread |-> 0, availableUpdate |-> NoUpdate, verified |-> FALSE,
              json |-> 0, emitted |-> "none", op |-> "other",
              chkEnd |-> "none", nChecks |-> 0]
    /\ thr = NoThreads
    /\ part = [k \in Kinds |-> 0]
    /\ commits = 0
    /\ rd = NoReader

Next ==
    \/ check
    \/ downloadFinished
    \/ replyDeleted
    \/ destructor
    \/ install
    \/ \E w \in Workers : threadDeleted(w)
    \/ \E w \in Workers : onSucceeded(w)
    \/ \E w \in Workers : onFailed(w)
    \/ \E w \in Workers : davEnter(w)
    \/ \E w \in Workers : deltaReadyRead(w)
    \/ \E w \in Workers : deltaError(w)
    \/ \E w \in Workers : deltaFinished(w)
    \/ \E w \in Workers : deltaTimeout(w)
    \/ \E w \in Workers : deltaProgress(w)
    \/ \E w \in Workers : loopQuit(w)
    \/ \E w \in Workers : verify1(w)
    \/ \E w \in Workers : fullReadyRead(w)
    \/ \E w \in Workers : fullError(w)
    \/ \E w \in Workers : fullFinished(w)
    \/ \E w \in Workers : fullTimeout(w)
    \/ \E w \in Workers : fullProgress(w)
    \/ \E w \in Workers : verify2(w)
    \/ \E w \in Workers : run(w)

Spec == Init /\ [][Next]_vars

\* What the scheduling of a worker thread guarantees: a thread that can go
\* on in run(), downloadAndVerify or verifyImage does, a single-shot 60 s
\* timer that stays armed fires, and loop.exec() returns once the thread was
\* told to quit.  Nothing is assumed of the network and of the main thread.
Fairness ==
    \A w \in Workers :
        /\ WF_vars(davEnter(w))
        /\ WF_vars(deltaTimeout(w))
        /\ WF_vars(fullTimeout(w))
        /\ WF_vars(loopQuit(w))
        /\ WF_vars(verify1(w))
        /\ WF_vars(verify2(w))
        /\ WF_vars(run(w))

SpecLive == Spec /\ Fairness

\* ------------------------------------------------------------ ImageReader

\* Largest page_size field drawn.
MaxPage == 4
\* Largest kernel_size, initrd_size, second_size, dtb_size field drawn, and
\* largest distance of bytes_used from a multiple of the block size.
MaxField == 1
\* Device lengths are drawn up to MaxExtra bytes around the header size and
\* around the squashfs block size.
MaxExtra == 8

\* The Android boot header's own size, as ImageReader::open rounds it.
HeaderSize == 608
\* The alignment ImageReader::open applies to a squashfs bytes_used.
SquashBlock == 4096

RECURSIVE BitAnd(_, _)
\* a & b on natural numbers.
BitAnd(a, b) ==
    IF a = 0 \/ b = 0 THEN 0
    ELSE (a % 2) * (b % 2) + 2 * BitAnd(a \div 2, b \div 2)

\* ALIGN_TO on a 64-bit size_t: (l + ali - 1) & ~(ali - 1).  With ali = 0,
\* ali - 1 wraps to all ones and the mask is 0; for the operands drawn here
\* (below 2^32) nothing else wraps, so x & ~m is x - (x & m).
ALIGN_TO(l, ali) ==
    IF ali = 0 THEN 0
    ELSE (l + ali - 1) - BitAnd(l + ali - 1, ali - 1)

\* The image size ImageReader::open derives from an Android boot header.
androidImageSize(hdr) ==
    ALIGN_TO(HeaderSize, hdr.page_size)
    + ALIGN_TO(hdr.kernel_size, hdr.page_size)
    + ALIGN_TO(hdr.initrd_size, hdr.page_size)
    + ALIGN_TO(hdr.second_size, hdr.page_size)
    + ALIGN_TO(hdr.dtb_size, hdr.page_size)

\* The image size ImageReader::open derives from a squashfs superblock.
squashfsImageSize(hdr) == ALIGN_TO(hdr.bytes_used, SquashBlock)

\* The underlying length ImageReader::open compares with: file.size() of a
\* regular file, the BLKGETSIZE64 result of a block device, 0 when that
\* ioctl fails.
fileSizeOf(dev) ==
    IF dev.mode = "blk" /\ ~dev.ioctlOk THEN 0 ELSE dev.length

\* ImageReader::open without its comparison of the two sizes.
sizeFits_Unchecked(fileSize, imageSize) == TRUE

\* The last test of ImageReader::open: !(fileSize < imageSize).
sizeFits(fileSize, imageSize) == ~(fileSize < imageSize)

\* ImageReader::open on device dev.  dev.fault names the step that fails
\* before the size is derived: QFile::open, fstat, the header read, the
\* magic test, or none.  The result carries the return value (ret), whether
\* the file is left open, whether imageSize was assigned (sized), and its
\* value.
open(dev) ==
    LET closed == [ret |-> FALSE, isOpen |-> FALSE, sized |-> FALSE, imageSize |-> 0]
        unsized == [closed EXCEPT !.isOpen = TRUE]
        imageSize == IF dev.type = "SquashFsType"
                     THEN squashfsImageSize(dev.hdr)
                     ELSE androidImageSize(dev.hdr)
        sized == [ret |-> FALSE, isOpen |-> TRUE, sized |-> TRUE,
                  imageSize |-> imageSize] IN
    IF dev.fault = "open" THEN closed
    ELSE IF dev.fault = "fstat" THEN unsized
    ELSE IF dev.type \notin {"SquashFsType", "AndroidBootType"} THEN unsized
    ELSE IF dev.fault \in {"short", "magic"} THEN unsized
    ELSE IF dev.mode \notin {"reg", "blk"} THEN sized
    ELSE [sized EXCEPT !.ret = sizeFits(fileSizeOf(dev), imageSize)]

\* ImageReader::map on reader r.  mmapOk: mmap succeeds; it returns
\* MAP_FAILED, which is (void *) -1 and not a null pointer, when it does not.
map(r, mmapOk) ==
    IF ~r.isOpen
    THEN [r EXCEPT !.mapRet = "null"]
    ELSE LET buf == IF r.mappedBuffer # "null" THEN r.mappedBuffer
                    ELSE IF mmapOk THEN "addr" ELSE "MAP_FAILED" IN
         [r EXCEPT !.mappedBuffer = buf, !.mapRet = buf]

\* The headers, devices and readers drawn.
AndroidHeaders ==
    [page_size : 0..MaxPage, kernel_size : 0..MaxField, initrd_size : 0..MaxField,
     second_size : 0..MaxField, dtb_size : 0..MaxField, bytes_used : {0}]

SquashfsHeaders ==
    [page_size : {0}, kernel_size : {0}, initrd_size : {0}, second_size : {0},
     dtb_size : {0},
     bytes_used : {b + f : b \in {0, SquashBlock}, f \in 0..MaxField}]

Lengths ==
    {0} \cup {b + e : b \in {HeaderSize, SquashBlock}, e \in (0 - MaxExtra)..MaxExtra}

Devices ==
    [type : {"AndroidBootType"}, hdr : AndroidHeaders,
     fault : {"none", "open", "fstat", "short", "magic"},
     mode : {"reg", "blk", "chr"}, ioctlOk : BOOLEAN, length : Lengths]
    \cup
    [type : {"SquashFsType"}, hdr : SquashfsHeaders,
     fault : {"none", "open", "fstat", "short", "magic"},
     mode : {"reg", "blk", "chr"}, ioctlOk : BOOLEAN, length : Lengths]

\* ImageReader::ImageReader on device dev.  use records what the caller
\* did with the pointer map() returned: "none", "refused" (it returned
\* false on a null pointer), "read" (it read through a mapping), "fault"
\* (it read through a pointer that is no mapping), "unread" (it had no byte
\* to read).
NewReader(dev) ==
    [pc |-> "new", dev |-> dev, ret |-> FALSE, isOpen |-> FALSE, sized |-> FALSE,
     imageSize |-> 0, mappedBuffer |-> "null", mapRet |-> "null",
     mmapFailed |-> FALSE, use |-> "none"]

\* One ImageReader on one device, beside a new Updater that is left alone.
InitReader ==
    /\ ctl = [Aborted EXCEPT !.alive = TRUE]
    /\ thr = NoThreads
    /\ part = [k \in Kinds |-> 0]
    /\ commits = 0
    /\ rd \in {NewReader(dev) : dev \in Devices}

\* image.open() / dict.open().
readerOpen ==
    /\ rd.pc = "new"
    /\ LET o == open(rd.dev) IN
       rd' = [rd EXCEPT !.pc = "open", !.ret = o.ret, !.isOpen = o.isOpen,
                        !.sized = o.sized, !.imageSize = o.imageSize]
    /\ UNCHANGED <<ctl, thr, part, commits>>

\* What verifyImage and downloadDeltaImage do after a successful open():
\* buf = map(); return false if buf is null; read imageSize bytes through
\* buf otherwise.  mmap of a length of 0 always fails.
readerUse ==
    /\ rd.pc = "open" /\ rd.ret
    /\ \E mmapOk \in BOOLEAN :
          /\ rd.imageSize = 0 => ~mmapOk
          /\ LET m == map(rd, mmapOk) IN
             rd' = [m EXCEPT !.pc = "used",
                             !.mmapFailed = ~mmapOk,
                             !.use = IF m.mapRet = "null" THEN "refused"
                                     ELSE IF rd.imageSize = 0 THEN "unread"
                                     ELSE IF m.mapRet = "addr" THEN "read"
                                     ELSE "fault"]
    /\ UNCHANGED <<ctl, thr, part, commits>>

\* ImageReader::close, from the destructor or from downloadAndVerify.
readerClose ==
    /\ rd.pc \in {"open", "used"}
    /\ rd' = [rd EXCEPT !.pc = "closed",
                        !.isOpen = FALSE,
                        !.mappedBuffer = IF rd.isOpen THEN "null" ELSE @]
    /\ UNCHANGED <<ctl, thr, part, commits>>

NextReader ==
    \/ readerOpen
    \/ readerUse
    \/ readerClose

SpecReader == InitReader /\ [][NextReader]_vars

\* ------------------------------------------------- verifyImage, byte by byte

\* Largest image size drawn.
MaxImage == 3
\* The largest chunk verifyImage hashes at once: 1 MiB in the program,
\* scaled down so that an image takes several chunks.
ChunkMax == 2

Bytes == {0, 1}
\* The files drawn hold the largest image and at most one byte more.
FileLen == MaxImage + 1
Files == UNION {[1..n -> Bytes] : n \in MaxImage..FileLen}
\* A digest stands for the byte sequence that hashes to it.
Digests == UNION {[1..n -> Bytes] : n \in 0..MaxImage}

\* The loop of verifyImage hashing the whole file.
imageLength_FileLength(r) == Len(r.buf[r.k])

\* image.size(), the bound of the loop of verifyImage.
imageLength(r) == r.size

\* The length l of the chunk the loop of verifyImage hashes at pos.
chunkLen(size, pos) == IF ChunkMax < size - pos THEN ChunkMax ELSE size - pos

\* Two verifyImage calls with the same image size and digest on two
\* mappings buf[1] and buf[2].  k is the call in hand, pos and fed are its
\* position and the bytes it has passed to hash.addData so far, maxl its
\* longest chunk; res[k] and all[k] are the value call k returned and the
\* bytes it hashed.
NewVerify(size, f1, f2, sha512) ==
    [pc |-> "loop", size |-> size, buf |-> <<f1, f2>>, sha512 |-> sha512,
     k |-> 1, pos |-> 0, fed |-> <<>>, maxl |-> 0,
     res |-> <<FALSE, FALSE>>, all |-> <<(<<>>), (<<>>)>>]

InitVerify ==
    /\ ctl = [Aborted EXCEPT !.alive = TRUE]
    /\ thr = NoThreads
    /\ part = [k \in Kinds |-> 0]
    /\ commits = 0
    /\ rd \in {NewVerify(size, f1, f2, sha512) :
                  size \in 0..MaxImage, f1 \in Files, f2 \in Files,
                  sha512 \in Digests}

\* One turn of the while loop of verifyImage.
hashChunk ==
    /\ rd.pc = "loop"
    /\ rd.pos < imageLength(rd)
    /\ LET l == chunkLen(imageLength(rd), rd.pos) IN
       rd' = [rd EXCEPT !.fed = @ \o SubSeq(rd.buf[rd.k], rd.pos + 1, rd.pos + l),
                        !.pos = @ + l,
                        !.maxl = IF l > @ THEN l ELSE @]
    /\ UNCHANGED <<ctl, thr, part, commits>>

\* The loop of verifyImage ends: the digest is compared and returned.
hashResult ==
    /\ rd.pc = "loop"
    /\ ~(rd.pos < imageLength(rd))
    /\ rd' = [rd EXCEPT !.res[rd.k] = (rd.fed = rd.sha512),
                        !.all[rd.k] = rd.fed,
                        !.pc = IF rd.k = 1 THEN "loop" ELSE "done",
                        !.k = 2, !.pos = 0, !.fed = <<>>]
    /\ UNCHANGED <<ctl, thr, part, commits>>

NextVerify ==
    \/ hashChunk
    \/ hashResult

SpecVerify == InitVerify /\ [][NextVerify]_vars

\* ----------------------------------------------------------------- claims

\* This step is a call of install() (one that changes anything).
InstallStep == ctl'.op = "install" /\ ctl' # ctl

\* Thread w is inside loop.exec() of a download.
InLoop(w) == thr[w].pc \in {"deltaLoop", "fullLoop"}

\* C1: setAltBootConfig is called only by the handler of the succeeded
\* signal of a run that accepted both the boot and the rootfs image, once
\* for that signal; the handler of a run's failed signal emits updateFailed
\* and does not call it.
C1_AtomicCommit ==
    [][/\ commits' # commits =>
            \E w \in Workers :
                /\ thr[w].verdict = "succeeded" /\ thr[w].acc = Kinds
                /\ ~thr[w].delivered /\ thr'[w].delivered
                /\ commits' = commits + 1
       /\ \A w \in Workers :
            (thr[w].verdict = "failed" /\ ~thr[w].delivered /\ thr'[w].delivered)
               => (commits' = commits /\ ctl'.emitted = "updateFailed")]_vars

\* A run was committed after another run had failed.
C1_Witness ==
    /\ commits = 1 /\ ctl.emitted = "updateSucceeded"
    /\ \E w \in Workers : thr[w].delivered /\ w # ctl.thread

\* C2: a run whose downloadDeltaImage returned false for the kind in hand
\* has issued one full-image request for that kind by the time
\* downloadAndVerify returns.
C2_DeltaFailureFallsBack ==
    \A w \in Workers :
        (thr[w].pc = "ret" /\ thr[w].dres = "failed") => thr[w].fullReqs = 1

\* C3: the AvailableUpdate record has a non-zero version only if the
\* manifest it was parsed from has passed verifySignature.
C3_VerifiedBeforeSurfaced ==
    ctl.availableUpdate.version # 0 => ctl.verified

\* C4: the progress values a run emits never decrease and lie in [0,1].
C4_ProgressMonotone ==
    [][\A w \in Workers :
          (thr[w].prog # -1 /\ thr'[w].prog # -1)
             => (thr'[w].prog >= thr[w].prog /\ thr'[w].prog \in 0..(4 * PSteps))]_vars

\* C5: the handler in which a check fails before a successful signature
\* verification emits checkFailed.
C5_CheckErrorReported ==
    [][(ctl.chkEnd = "none" /\ ctl'.chkEnd \in CheckFailures)
          => ctl'.emitted = "checkFailed"]_vars

\* C6: once a check has failed before a successful signature verification,
\* availableUpdate.version is 0.
C6_FailedCheckLeavesNoUpdate ==
    ctl.chkEnd \in CheckFailures => ctl.availableUpdate.version = 0

\* C7: a run issues a rootfs request, opens the inactive rootfs partition
\* or waits for rootfs data only after it has accepted the boot image.
C7_BootBeforeRootfs ==
    \A w \in Workers :
        ("rootfs" \in thr[w].touched \/ (thr[w].state = "rootfs" /\ InLoop(w)))
           => "boot" \in thr[w].acc

\* A run is downloading the full rootfs image.
C7_Witness ==
    \E w \in Workers :
        /\ thr[w].state = "rootfs" /\ thr[w].pc = "fullLoop"
        /\ "rootfs" \in thr[w].touched

\* C8: after a delta transfer that finished without error and a first
\* verifyImage that failed, the run has issued exactly one full-image
\* request for the kind, and downloadAndVerify returns true iff the second
\* verifyImage succeeded.
C8_DeltaThenFull ==
    \A w \in Workers :
        (thr[w].dres = "ok" /\ thr[w].v1 = "bad")
           => /\ thr[w].fullReqs = 1
              /\ thr[w].pc = "ret" => (thr[w].ret <=> thr[w].v2 = "ok")
              /\ thr[w].pc = "ret" => (thr[w].ret <=> thr[w].state \in thr[w].acc)

\* A kind was accepted by the full download that followed a delta mismatch.
C8_Witness ==
    \E w \in Workers :
        /\ thr[w].pc = "ret" /\ thr[w].dres = "ok" /\ thr[w].v1 = "bad"
        /\ thr[w].ret /\ thr[w].v2 = "ok" /\ thr[w].fullReqs = 1

\* C9: after a check that ended with alreadyUpToDate, install() starts no
\* thread.
C9_UpToDateNoInstall ==
    [][(ctl.chkEnd = "already_up_to_date" /\ InstallStep) => thr' = thr]_vars

\* C10: install() called with availableUpdate.version = 0 emits
\* updateFailed, creates no thread and does not call setAltBootConfig.
C10_InstallNoUpdate ==
    [][(ctl.availableUpdate.version = 0 /\ InstallStep)
          => /\ ctl'.emitted = "updateFailed"
             /\ thr' = thr
             /\ ctl'.thread = ctl.thread
             /\ commits' = commits]_vars

\* install() has just been refused after a check whose signature was invalid.
C10_Witness ==
    /\ ctl.op = "install" /\ ctl.emitted = "updateFailed"
    /\ ctl.availableUpdate.version = 0
    /\ ctl.chkEnd = "sig_invalid"

\* Thread w has been started and has not yet emitted succeeded or failed.
Started(w) == thr[w].pc \notin {"none", "done"}

\* Thread w can receive data and write it to its output.
Writer(w) == InLoop(w) /\ ~thr[w].quit

\* The states of a check in progress.
InProgress == {"StateDownloadJson", "StateDownloadSignature", "StateVerifySignature"}

\* C11: once a check has finished, successfully or not, the controller
\* state is none of the in-progress states.
C11_CheckEndsIdle ==
    ctl.chkEnd # "none" => ctl.state \notin InProgress

\* C12: while a thread is started and has not emitted its verdict, no step
\* of the running process changes the AvailableUpdate record.
C12_ImmutableBorrow ==
    [][(ctl'.alive /\ \E w \in Workers : Started(w) /\ thr'[w].pc # "none")
          => ctl'.availableUpdate = ctl.availableUpdate]_vars

C14_NoDictMeansFull ==
    \A w \in Workers :
        (~thr[w].quit /\ thr[w].pc = "ret" /\ thr[w].dres = "none")
           => (thr[w].fullReqs = 1 /\ (thr[w].ret <=> thr[w].v2 = "ok"))

\* C14 amended: a run whose dictionary did not open issues no delta
\* request; it first verifies the output as it is and accepts the kind when
\* that succeeds, without any request; otherwise it issues exactly one
\* full-image request and accepts the kind iff the output verifies after it.
C14_NoDictVerifyThenFull ==
    \A w \in Workers :
        (~thr[w].quit /\ thr[w].dres = "none" /\ thr[w].v1 # "none")
           => /\ thr[w].v1 = "ok" => (thr[w].fullReqs = 0 /\ thr[w].pc = "ret" /\ thr[w].ret)
              /\ thr[w].v1 = "bad" => thr[w].fullReqs = 1
              /\ (thr[w].state \in thr[w].touched) <=> (thr[w].fullReqs = 1)
              /\ (thr[w].pc = "ret" /\ thr[w].v1 = "bad")
                    => (thr[w].ret <=> thr[w].v2 = "ok")

\* A kind was accepted by the full download made because the dictionary
\* did not open.
C14_Witness ==
    \E w \in Workers :
        /\ ~thr[w].quit /\ thr[w].pc = "ret" /\ thr[w].dres = "none"
        /\ thr[w].v1 = "bad" /\ thr[w].v2 = "ok" /\ thr[w].ret

\* C15: the step in which downloadAndVerify comes to return true is a
\* verifyImage of the inactive partition of the kind in hand, on a content
\* whose digest is the one the manifest record names at that moment; the
\* kind joins the accepted kinds in that step only.
C15_AcceptOnlyOnHashMatch ==
    [][\A w \in Workers :
          /\ (thr'[w].pc = "ret" /\ thr'[w].ret /\ thr[w].pc # "ret")
                => /\ thr[w].pc \in {"verify1", "verify2"}
                   /\ part[thr[w].state] # 0
                   /\ part[thr[w].state] = ctl.availableUpdate.m
                   /\ part' = part
          /\ ~(thr'[w].acc \subseteq thr[w].acc)
                => (thr'[w].pc = "ret" /\ thr'[w].ret /\ thr[w].pc # "ret"
                    /\ thr'[w].acc = thr[w].acc \cup {thr[w].state})]_vars

\* The rootfs image produced by the delta was accepted by the first
\* verifyImage.
C15_Witness ==
    \E w \in Workers :
        /\ thr[w].pc = "ret" /\ thr[w].ret /\ thr[w].state = "rootfs"
        /\ thr[w].dres = "ok" /\ thr[w].v1 = "ok"
        /\ part.rootfs = ctl.availableUpdate.m

\* C17: the step in which the 60 s timer of downloadDeltaImage or of
\* downloadFullImage ends the loop of a transfer that has not finished
\* makes downloadAndVerify return false: the kind is not accepted.
C17_Watchdog ==
    [][\A w \in Workers :
          (deltaTimeout(w) \/ fullTimeout(w))
             => /\ thr'[w].pc = "ret" /\ ~thr'[w].ret
                /\ thr'[w].acc = thr[w].acc
                /\ thr[w].state \notin thr'[w].acc]_vars

\* A full download has written an image with the manifest's digest and
\* has not finished: its timer can expire.
C17_Witness ==
    \E w \in Workers :
        /\ Writer(w) /\ thr[w].pc = "fullLoop"
        /\ part[thr[w].state] # 0
        /\ part[thr[w].state] = ctl.availableUpdate.m

\* The smallest multiple of P that is >= x, for P > 0.
RoundUp(x, P) == ((x + P - 1) \div P) * P

\* C18: for an Android boot header with valid magics and page_size P > 0,
\* the image size ImageReader::open derives is the sum of the header size
\* (608) and the four *_size fields, each rounded up to a multiple of P.
C18_AndroidImageSize ==
    (rd.pc # "new" /\ rd.sized /\ rd.dev.type = "AndroidBootType"
       /\ rd.dev.hdr.page_size # 0)
       => rd.imageSize = RoundUp(HeaderSize, rd.dev.hdr.page_size)
                         + RoundUp(rd.dev.hdr.kernel_size, rd.dev.hdr.page_size)
                         + RoundUp(rd.dev.hdr.initrd_size, rd.dev.hdr.page_size)
                         + RoundUp(rd.dev.hdr.second_size, rd.dev.hdr.page_size)
                         + RoundUp(rd.dev.hdr.dtb_size, rd.dev.hdr.page_size)

\* C19: when ImageReader::open has returned true the derived image size is
\* at most the length of the device, and is 0 when the device is a block
\* device whose size query failed; when the derived size exceeds the length
\* of the device, open has returned false.
C19_SizeWithinDevice ==
    rd.pc # "new"
       => /\ rd.ret => (rd.sized /\ rd.imageSize <= rd.dev.length)
          /\ (rd.ret /\ rd.dev.mode = "blk" /\ ~rd.dev.ioctlOk) => rd.imageSize = 0
          /\ (rd.sized /\ rd.imageSize > rd.dev.length) => ~rd.ret

\* open() succeeded on a block device exactly as long as its image.
C19_Witness ==
    /\ rd.pc = "open" /\ rd.ret /\ rd.dev.mode = "blk"
    /\ rd.imageSize > 0 /\ rd.imageSize = rd.dev.length

\* C20: when the mapping of an opened image has failed, map() has returned
\* a null pointer and its caller has returned false without reading
\* through the pointer.
C20_MapFailureReported ==
    (rd.pc = "used" /\ rd.mmapFailed)
       => (rd.mapRet = "null" /\ rd.use = "refused")

\* The first n bytes of mapping f.
Prefix(f, n) == SubSeq(f, 1, n)

\* C16: each verifyImage call hashes exactly the first image_size bytes of
\* its mapping, in chunks of at most ChunkMax bytes; two mappings that
\* agree on their first image_size bytes get the same result.
C16_HeaderDerivedHashing ==
    /\ rd.maxl <= ChunkMax
    /\ rd.fed = Prefix(rd.buf[rd.k], rd.pos)
    /\ rd.pc = "done"
          => /\ \A k \in 1..2 : rd.all[k] = Prefix(rd.buf[k], rd.size)
             /\ Prefix(rd.buf[1], rd.size) = Prefix(rd.buf[2], rd.size)
                   => rd.res[1] = rd.res[2]

\* Two mappings that differ only beyond an image size of several chunks
\* were both verified successfully.
C16_Witness ==
    /\ rd.pc = "done" /\ rd.size > ChunkMax
    /\ rd.buf[1] # rd.buf[2]
    /\ Prefix(rd.buf[1], rd.size) = Prefix(rd.buf[2], rd.size)
    /\ rd.res[1] /\ rd.res[2]

\* A step in which check() returned.
CheckStep == ctl'.alive /\ ctl'.nChecks = ctl.nChecks + 1

\* A step in which the destructor returned.
DestructorStep == ctl.alive /\ ctl'.op = "destructor"

\* C21: check() and the destructor abort or release only a reply that is
\* still in flight: when either runs, pendingReply is null or points to a
\* request that downloadFinished has not completed and released.
C21_ReplyHandleLifetime ==
    [][(CheckStep \/ DestructorStep) => ctl.pendingReply \in {"null", "inflight"}]_vars

\* run() of thread w has been entered and has not returned.
InRun(w) == thr[w].pc \notin {"none", "done"}

\* run() of thread w has returned after emitting succeeded or failed.
Ended(w) == thr[w].pc = "done" /\ (thr[w].verdict # "none" \/ thr[w].delivered)

\* C22: every run install() started ends with a verdict, unless the Updater
\* is destroyed first; a thread that is not running has emitted nothing or
\* its one verdict.
C22_InstallTerminates ==
    \A w \in Workers : InRun(w) ~> (Ended(w) \/ ctl.op = "destructor")

====
